---- MODULE Spec2Model ----
(***************************************************************************)
(* Model of the daily-sync reconciliation routine of fitbit-private-mcp    *)
(* (src/src/worker.ts): the POST /api/sync handler, the OAuth callback     *)
(* that creates the credential row, and updateDailySummary.                *)
(*                                                                         *)
(* Every await of the handler is one step of a cycle: the store (D1) and   *)
(* the clock are the only state shared by overlapping cycles.              *)
(*                                                                         *)
(* Conventions: NULL (-1) stands for SQL NULL and for a JavaScript null or *)
(* undefined number; the result of .first() and an optional object is a    *)
(* sequence of length 0 (null) or 1; dates are day numbers; times are      *)
(* hours, DayLen of them to the UTC day; a token is the number of the      *)
(* token response that issued it.                                          *)
(***************************************************************************)
EXTENDS Integers, Sequences, FiniteSets, TLC

VARIABLES
    db,       \* the D1 store: table name -> sequence of rows (insertion order)
    now,      \* the wall clock (Date.now())
    issued,   \* number of token responses the upstream token endpoint has issued
    cyc,      \* per sync cycle: the handler's position and local variables
    env,      \* the world outside: the domains the upstream has data for, the token
              \* lifetimes it grants, the instants at which the clock is read
    sync_state,  \* the rows of the D1 table sync_state (key, value)
    rep,      \* per report trigger: the position and locals of postDailyHealthReport
    slack,    \* history: the report dates of the messages delivered to the channel
    req,      \* the HTTP request in the middleware chain
    cb,       \* the OAuth routes: the last authorize redirect and the callback's
              \* position and locals
    sched     \* the scheduled handler: its position and locals

\* the state of the daily report
reportVars == <<sync_state, rep, slack>>

\* the state of the OAuth routes and of the scheduled handler
handlerVars == <<cb, sched>>

vars == <<db, now, issued, cyc, env, sync_state, rep, slack, req, cb, sched>>

\* ------------------------------------------------------------------ bounds
MaxTime == 3
MaxExpiresIn == 2
MaxIssued == 3

NULL == -1

\* the hours of a UTC day
DayLen == 24

Cycles == {"manual", "scheduled"}

Tables == {"oauth_tokens", "daily_activity", "sleep_data", "heart_rate",
           "weight_data", "vo2max_data", "spo2_data", "daily_summary"}

Domains == <<"activity", "sleep", "heart", "weight", "vo2max", "spo2">>

\* the sets of domains an upstream of the model has data for: one domain at a time
ServedSets == {{Domains[i]} : i \in 1..Len(Domains)}

\* new Date().toISOString().split('T')[0]: the UTC calendar date of a time
DateOf(t) == t \div DayLen

\* new Date().getUTCHours(): the hour of the UTC day of a time
UtcHour(t) == t % DayLen

\* ------------------------------------------------------------- JS helpers
\* a number used as it is, with no default (a faulty variant)
NoDefault(x) == x

\* x || 0 : a missing (undefined/null) or zero number becomes 0
OrZero(x) == IF x = NULL \/ x = 0 THEN 0 ELSE x

\* x || null : a missing or zero number becomes null
OrNull(x) == IF x = NULL \/ x = 0 THEN NULL ELSE x

\* Math.round(ms / 60000) for ms >= 0
RoundMinutes(ms) == (2 * OrZero(ms) + 60000) \div 120000

\* arr.find(e => e[key] === name)?.[field]
RECURSIVE FindField(_, _, _, _)
FindField(arr, key, name, field) ==
    IF arr = <<>> THEN NULL
    ELSE IF Head(arr)[key] = name THEN Head(arr)[field]
    ELSE FindField(Tail(arr), key, name, field)

\* ------------------------------------------------------------ store (D1)
\* SELECT * FROM t WHERE col = v ... .first(): null or the first matching row
SelectFirst(rows, col, v) ==
    LET hit == SelectSeq(rows, LAMBDA r : r[col] = v)
    IN  IF hit = <<>> THEN <<>> ELSE <<Head(hit)>>

\* INSERT with no conflict handling: always a new row (a faulty variant)
InsertAlways(rows, col, r) == Append(rows, r)

\* INSERT ... ON CONFLICT(col) DO NOTHING: the first row stays (a faulty variant)
UpsertIgnore(rows, col, r) ==
    IF \E i \in 1..Len(rows) : rows[i][col] = r[col] THEN rows ELSE Append(rows, r)

\* an upsert whose DO UPDATE SET leaves out raw_data (a faulty variant)
UpsertKeepRaw(rows, col, r) ==
    IF \E i \in 1..Len(rows) : rows[i][col] = r[col]
    THEN [i \in 1..Len(rows) |->
            IF rows[i][col] = r[col]
            THEN (IF "raw_data" \in DOMAIN r
                  THEN [r EXCEPT !.raw_data = rows[i].raw_data] ELSE r)
            ELSE rows[i]]
    ELSE Append(rows, r)

\* INSERT ... ON CONFLICT(col) DO UPDATE SET <every bound column> = excluded.<column>
Upsert(rows, col, r) ==
    IF \E i \in 1..Len(rows) : rows[i][col] = r[col]
    THEN [i \in 1..Len(rows) |-> IF rows[i][col] = r[col] THEN r ELSE rows[i]]
    ELSE Append(rows, r)

\* the refresh that forgets to store the rotated refresh token (a faulty variant)
RefreshedRowKeepRefresh(row, access, refresh, expiresAt) ==
    [row EXCEPT !.access_token = access, !.expires_at = expiresAt]

\* UPDATE oauth_tokens SET access_token = ?, refresh_token = ?, expires_at = ?
RefreshedRow(row, access, refresh, expiresAt) ==
    [row EXCEPT !.access_token = access, !.refresh_token = refresh,
                !.expires_at = expiresAt]

\* ... WHERE user_id = ? : every matching row is updated, none is added
UpdateTokens(rows, user, access, refresh, expiresAt) ==
    [i \in 1..Len(rows) |->
        IF rows[i].user_id = user
        THEN RefreshedRow(rows[i], access, refresh, expiresAt)
        ELSE rows[i]]

\* the row of INSERT INTO oauth_tokens (user_id, access_token, refresh_token, expires_at)
TokenRow(user, access, refresh, expiresAt) ==
    [user_id |-> user, access_token |-> access, refresh_token |-> refresh,
     expires_at |-> expiresAt]

\* ------------------------------------------------- upstream response bodies
\* opt?.field : the field of an optional object, undefined (NULL) when absent
Field(opt, f) == IF opt = <<>> THEN NULL ELSE opt[1][f]

\* GET activities/date/<d>.json
ActivityBodies ==
    { [summary |-> <<[steps |-> 8000, caloriesOut |-> 2200,
                      distances |-> <<[activity |-> "tracker", distance |-> 4],
                                      [activity |-> "total", distance |-> 5]>>,
                      floors |-> 3, sedentaryMinutes |-> 600,
                      lightlyActiveMinutes |-> 100,
                      fairlyActiveMinutes |-> 15, veryActiveMinutes |-> 20]>>],
      [summary |-> <<>>] }

\* GET sleep/date/<d>.json
SleepBodies ==
    { [sleep |-> <<[startTime |-> 1, endTime |-> 2, duration |-> 25230000,
                    efficiency |-> 90]>>,
       stages |-> <<[deep |-> 60, light |-> 200, rem |-> 90, wake |-> 30]>>],
      [sleep |-> <<>>, stages |-> <<>>] }

\* GET activities/heart/date/<d>/1d.json
HeartBodies ==
    { [value |-> <<[restingHeartRate |-> 60,
                    heartRateZones |-> <<[name |-> "Out of Range", minutes |-> 1000],
                                         [name |-> "Fat Burn", minutes |-> 30],
                                         [name |-> "Cardio", minutes |-> 10],
                                         [name |-> "Peak", minutes |-> 2]>>]>>],
      [value |-> <<>>] }

\* one entry of a weight log
WeightEntry(d, w) == [date |-> d, weight |-> w, bmi |-> 22, fat |-> 18]

\* GET body/log/weight/date/<d>/30d.json: the entries of the window ending at d
\* (on the first day two entries for d itself, later one for the day before d
\* and one for d)
WeightBodies(d) ==
    { [weight |-> <<>>],
      [weight |-> IF d > 0 THEN <<WeightEntry(d - 1, 69), WeightEntry(d, 70)>>
                  ELSE <<WeightEntry(d, 70), WeightEntry(d, 71)>>] }

\* GET cardioscore/date/<d>.json
Vo2maxBodies(d) ==
    { [cardioScore |-> <<[dateTime |-> d, value |-> [vo2Max |-> 45]]>>],
      [cardioScore |-> <<>>] }

\* GET spo2/date/<d>.json
Spo2Bodies(d) ==
    { [dateTime |-> d, value |-> <<[avg |-> 96, min |-> 93, max |-> 99]>>],
      [dateTime |-> d, value |-> <<>>] }

\* ------------------------------------------------ per-domain row projection
\* the values bound to the daily_activity upsert
ActivityRow(date, body) ==
    [date |-> date,
     steps |-> OrZero(Field(body.summary, "steps")),
     calories_out |-> OrZero(Field(body.summary, "caloriesOut")),
     distance |-> OrZero(IF body.summary = <<>> THEN NULL
                         ELSE FindField(body.summary[1].distances,
                                        "activity", "total", "distance")),
     floors |-> OrZero(Field(body.summary, "floors")),
     sedentary_minutes |-> OrZero(Field(body.summary, "sedentaryMinutes")),
     lightly_active_minutes |-> OrZero(Field(body.summary, "lightlyActiveMinutes")),
     fairly_active_minutes |-> OrZero(Field(body.summary, "fairlyActiveMinutes")),
     very_active_minutes |-> OrZero(Field(body.summary, "veryActiveMinutes")),
     raw_data |-> body]

\* the values bound to the sleep_data upsert (body.sleep is not empty)
SleepRow(date, body) ==
    [date |-> date,
     start_time |-> body.sleep[1].startTime,
     end_time |-> body.sleep[1].endTime,
     duration_minutes |-> RoundMinutes(body.sleep[1].duration),
     efficiency |-> body.sleep[1].efficiency,
     deep_minutes |-> OrZero(Field(body.stages, "deep")),
     light_minutes |-> OrZero(Field(body.stages, "light")),
     rem_minutes |-> OrZero(Field(body.stages, "rem")),
     wake_minutes |-> OrZero(Field(body.stages, "wake")),
     raw_data |-> body]

\* the values bound to the heart_rate upsert (body.value is not empty)
HeartRow(date, body) ==
    LET zones == body.value[1].heartRateZones
    IN  [date |-> date,
         resting_heart_rate |-> OrNull(body.value[1].restingHeartRate),
         out_of_range_minutes |-> OrZero(FindField(zones, "name", "Out of Range", "minutes")),
         fat_burn_minutes |-> OrZero(FindField(zones, "name", "Fat Burn", "minutes")),
         cardio_minutes |-> OrZero(FindField(zones, "name", "Cardio", "minutes")),
         peak_minutes |-> OrZero(FindField(zones, "name", "Peak", "minutes")),
         raw_data |-> body]

\* the values bound to the weight_data upsert of one entry
WeightRow(w) ==
    [date |-> w.date, weight |-> w.weight, bmi |-> w.bmi, fat_percent |-> w.fat,
     raw_data |-> w]

\* the values bound to the vo2max_data upsert (body.cardioScore is not empty)
Vo2maxRow(body) ==
    [date |-> body.cardioScore[1].dateTime, vo2max |-> body.cardioScore[1].value.vo2Max,
     raw_data |-> body]

\* the values bound to the spo2_data upsert (body.value is not empty)
Spo2Row(body) ==
    [date |-> body.dateTime, avg |-> body.value[1].avg, min |-> body.value[1].min,
     max |-> body.value[1].max, raw_data |-> body]

\* activeMinutes of updateDailySummary
ActiveMinutes(activity) ==
    OrZero(Field(activity, "fairly_active_minutes"))
    + OrZero(Field(activity, "very_active_minutes"))

\* a summary computed as if no activity row were stored (a faulty variant)
SummaryRowWithoutActivity(date, activity, sleep, heart, weight, vo2max, spo2Avg) ==
    [date |-> date,
     steps |-> 0, calories |-> 0, distance |-> 0, active_minutes |-> 0,
     resting_heart_rate |-> OrNull(Field(heart, "resting_heart_rate")),
     sleep_duration_minutes |-> OrZero(Field(sleep, "duration_minutes")),
     sleep_efficiency |-> OrNull(Field(sleep, "efficiency")),
     weight |-> OrNull(Field(weight, "weight")),
     vo2max |-> vo2max,
     spo2_avg |-> spo2Avg]

\* the values bound to the daily_summary upsert
SummaryRow(date, activity, sleep, heart, weight, vo2max, spo2Avg) ==
    [date |-> date,
     steps |-> OrZero(Field(activity, "steps")),
     calories |-> OrZero(Field(activity, "calories_out")),
     distance |-> OrZero(Field(activity, "distance")),
     active_minutes |-> ActiveMinutes(activity),
     resting_heart_rate |-> OrNull(Field(heart, "resting_heart_rate")),
     sleep_duration_minutes |-> OrZero(Field(sleep, "duration_minutes")),
     sleep_efficiency |-> OrNull(Field(sleep, "efficiency")),
     weight |-> OrNull(Field(weight, "weight")),
     vo2max |-> vo2max,
     spo2_avg |-> spo2Avg]

\* SELECT * FROM weight_data WHERE date = ? ORDER BY created_at DESC LIMIT 1
SelectLatest(rows, col, v) ==
    LET hit == SelectSeq(rows, LAMBDA r : r[col] = v)
    IN  IF hit = <<>> THEN <<>> ELSE <<hit[Len(hit)]>>

\* --------------------------------------------------------- the sync cycle
\* the locals of a handler invocation before its first statement
FreshCycle ==
    [pc |-> "idle",
     tokenResult |-> <<>>,       \* the row read from oauth_tokens
     accessToken |-> NULL,
     newTokens |-> <<>>,         \* the body of the refresh response
     newExpiresAt |-> NULL,
     today |-> NULL,
     headers |-> NULL,           \* the bearer token of the data fetches
     resp |-> [d \in {Domains[i] : i \in 1..Len(Domains)} |-> "none"],
     weights |-> <<>>,           \* entries of the weight window still to store
     vo2maxValue |-> NULL,
     spo2Avg |-> NULL,
     activity |-> <<>>, sleep |-> <<>>, heart |-> <<>>, weight |-> <<>>,
     fromForm |-> FALSE,         \* isFormSubmission(c)
     outcome |-> "none",         \* what the request is answered with
     status |-> 0,               \* the status of the response
     expiry |-> "none",          \* history: the stored expiry against the clock
     readToken |-> NULL,         \* history: the access token read from the store
     refreshCalls |-> 0,         \* history: calls of the refresh endpoint
     refreshResp |-> "none",     \* history: how the refresh endpoint answered
     rejected |-> "none",        \* history: the table whose upsert the store rejected
     stored |-> {},              \* history: the tables this cycle has written
     again |-> <<>>,             \* history: the domain row just written, when the
                                 \*          store already held that very row
     window |-> <<>>,            \* history: the weight entries of the response
     nodata |-> {}]              \* history: the domains answered ok without usable data

\* the world with short-lived tokens, a fine clock and an upstream whose data
\* endpoints cannot be reached
CredentialProfile ==
    [served |-> {}, reachable |-> FALSE, lifetimes |-> 1..MaxExpiresIn,
     tokens |-> MaxIssued, instants |-> 0..MaxTime, forms |-> {FALSE},
     rotates |-> FALSE]

\* a world with one token that outlives the run, two days with one clock reading
\* each and an upstream that has data for the domains of S
DataProfile(S) ==
    [served |-> S, reachable |-> TRUE, lifetimes |-> {DayLen + 1}, tokens |-> 1,
     instants |-> {0, DayLen}, forms |-> {FALSE},
     rotates |-> FALSE]

\* a world of one day in which the upstream has data for activity, sleep, heart
\* rate and weight at once
MultiProfile ==
    [served |-> {"activity", "sleep", "heart", "weight"}, reachable |-> TRUE,
     lifetimes |-> {DayLen + 1}, tokens |-> 1, instants |-> {0}, forms |-> {FALSE},
     rotates |-> FALSE]

Profiles == {CredentialProfile} \cup {DataProfile(S) : S \in ServedSets}

\* Date.now() / new Date(): the instants the clock may show from now on
Clock == {t \in env.instants : t >= now}

\* the triggers of the daily report: the scheduled handler and POST /api/test-report
Triggers == {"cron", "test"}

\* the locals of postDailyHealthReport before its first statement
FreshReport ==
    [pc |-> "idle",
     yesterday |-> NULL,
     at |-> NULL,                \* the instant at which yesterday was computed
     summary |-> <<>>, sleep |-> <<>>, heart |-> <<>>,
     insights |-> <<>>,          \* the result of analyzeHealthData: null or insights
     posted |-> <<>>,            \* the result of postHealthInsightsToSlack
     outcome |-> "none",         \* how the call ended: "returned" or "raised"
     prior |-> FALSE,            \* history: a report of this date was delivered before
     analysis |-> "none",        \* history: what the insight endpoint did
     posting |-> "none",         \* history: what the chat endpoint did
     called |-> {},              \* history: the collaborators this call has called
     wrote |-> FALSE]            \* history: this call has written sync_state

\* the query strings a callback may arrive with: an error parameter or none, no
\* code, a code the provider issued ("good") or any other code, and a state
\* parameter or none
Queries == [error : BOOLEAN, code : {"none", "good", "fake"}, state : {"none", "invalid"}]

\* the OAuth routes before any request
FreshCallback ==
    [pc |-> "idle",
     authorize |-> {},           \* the query parameters of the last authorize redirect
     query |-> [error |-> FALSE, code |-> "none", state |-> "none"],
     tokens |-> <<>>,            \* the parsed token response
     expiresAt |-> NULL,
     page |-> "none",            \* the response: an HTML page or the redirect
     exchange |-> "none",        \* history: what the token endpoint did
     before |-> <<>>,            \* history: oauth_tokens when the request arrived
     wrote |-> FALSE]            \* history: this request has written oauth_tokens

\* the scheduled handler before any trigger
FreshScheduled ==
    [pc |-> "idle",
     utcHour |-> NULL,
     returned |-> NULL,          \* history: the instant at which app.fetch returned
     reported |-> FALSE]         \* history: this trigger has started a report

\* no report has run and no request has arrived
Quiet ==
    /\ sync_state = <<>>
    /\ rep = [r \in Triggers |-> FreshReport]
    /\ slack = <<>>
    /\ req = [pc |-> "none"]
    /\ cb = FreshCallback
    /\ sched = FreshScheduled

Init ==
    /\ env \in Profiles
    /\ db = [t \in Tables |-> <<>>]
    /\ now = 0
    /\ issued = 0
    /\ cyc = [c \in Cycles |-> FreshCycle]
    /\ Quiet

\* the same start, in any of the worlds of Profiles or in that of MultiProfile
InitMulti ==
    /\ env \in Profiles \cup {MultiProfile}
    /\ db = [t \in Tables |-> <<>>]
    /\ now = 0
    /\ issued = 0
    /\ cyc = [c \in Cycles |-> FreshCycle]
    /\ Quiet

\* the status of the response: a form submission is redirected to the dashboard
\* with the outcome in the query; any other caller gets JSON with a status
Status(fromForm, outcome) ==
    IF fromForm THEN 302
    ELSE CASE outcome = "success" -> 200
           [] outcome = "not_authenticated" -> 401
           [] outcome = "token_refresh_failed" -> 401
           [] outcome = "sync_failed" -> 500

\* the handler returns: the response is sent and the locals of the statements die
\* (the history fields are kept)
Return(l, outcome) ==
    [l EXCEPT !.pc = "done", !.outcome = outcome,
              !.status = Status(l.fromForm, outcome), !.tokenResult = <<>>,
              !.accessToken = NULL, !.again = <<>>,
              !.newTokens = <<>>, !.newExpiresAt = NULL, !.weights = <<>>,
              !.vo2maxValue = NULL, !.spo2Avg = NULL,
              !.activity = <<>>, !.sleep = <<>>, !.heart = <<>>, !.weight = <<>>]

\* a catch block that answers as if the sync had gone through (a faulty variant)
CatchAsSuccess(l) == Return(l, "success")

\* the handler's catch block: the request is answered 500 / ?error=sync_failed
Catch(l) == Return(l, "sync_failed")

\* going on to the next domain whatever the status of its response (a faulty variant)
NextStageAll(resp, i) == IF i < Len(Domains) THEN Domains[i + 1] ELSE "readActivity"

\* going straight to updateDailySummary after a domain (a faulty variant)
NextStageSummaryFirst(resp, i) == "readActivity"

\* the statement the handler awaits next once the domains up to the i-th are done:
\* the body of the next response that is ok, or the first read of updateDailySummary
NextStage(resp, i) ==
    IF \E j \in (i + 1)..Len(Domains) : resp[Domains[j]] = "ok"
    THEN Domains[CHOOSE j \in (i + 1)..Len(Domains) :
                    /\ resp[Domains[j]] = "ok"
                    /\ \A k \in (i + 1)..(j - 1) : resp[Domains[k]] # "ok"]
    ELSE "readActivity"

\* the first domain, in fetch order, whose request has not been issued yet
NextFetch(resp) ==
    Domains[CHOOSE i \in 1..Len(Domains) :
                /\ resp[Domains[i]] = "none"
                /\ \A j \in 1..(i - 1) : resp[Domains[j]] # "none"]

\* expiresAt < new Date()
IsExpired(expiresAt, t) == expiresAt < t

\* an expiry that leaves out the clock (a faulty variant)
NewExpiryNoClock(t, expiresIn) == expiresIn

\* new Date(Date.now() + expires_in * 1000)
NewExpiry(t, expiresIn) == t + expiresIn

\* headers = { Authorization: `Bearer ${accessToken}` }
Bearer(l) == l.accessToken

\* where an expiry lies against a clock reading
Against(expiresAt, t) ==
    IF expiresAt < t THEN "past" ELSE IF expiresAt = t THEN "now" ELSE "future"

\* the token is acquired: today and the headers are computed, and the values read
\* for the acquisition are not used again
Acquired(l, t) ==
    [l EXCEPT !.pc = "fetch", !.today = DateOf(t), !.headers = Bearer(l),
              !.tokenResult = <<>>, !.newTokens = <<>>, !.newExpiresAt = NULL]

\* a rejected refresh that is not noticed (a faulty variant)
RefreshRejectedIgnored(l) == Acquired([l EXCEPT !.refreshResp = "notok"], now)

\* if (!refreshResponse.ok) return 401 token_refresh_failed
RefreshRejected(l) == Return([l EXCEPT !.refreshResp = "notok"], "token_refresh_failed")

\* GET /auth/callback with a code the token endpoint accepts: the credential row
\* is created, or overwritten in place
AuthCallback ==
    /\ issued < env.tokens
    /\ \E e \in env.lifetimes, t \in Clock :
        /\ now' = t
        /\ issued' = issued + 1
        /\ db' = [db EXCEPT !.oauth_tokens =
                    Upsert(@, "user_id",
                           TokenRow("default", issued + 1, issued + 1, t + e))]
    /\ UNCHANGED <<cyc, env>>
    /\ UNCHANGED <<reportVars, req, handlerVars>>

\* ------------------------------------------------------------ OAuth routes

\* the callback answers with an HTML page or with the redirect to the dashboard
Answer(l, page) == [l EXCEPT !.pc = "done", !.page = page]

\* catch (err): the page titled Error
CallbackCaught(l) == Answer(l, "error")

\* a refused code exchange that is not noticed (a faulty variant)
ExchangeRejectedIgnored(l) ==
    [l EXCEPT !.exchange = "notok", !.pc = "store",
              !.tokens = <<[access_token |-> NULL, refresh_token |-> NULL]>>]

\* if (!tokenResponse.ok) throw new Error(...)
ExchangeRejected(l) == CallbackCaught([l EXCEPT !.exchange = "notok"])

\* GET /auth/fitbit: the redirect to the provider's authorize page
AuthFitbit ==
    /\ cb' = [cb EXCEPT !.authorize =
                  {"response_type", "client_id", "redirect_uri", "scope"}]
    /\ UNCHANGED <<db, now, issued, cyc, env, reportVars, req, sched>>

\* GET /auth/callback: the error parameter, then the code parameter, are tested
CallbackArrive ==
    /\ cb.pc \in {"idle", "done"}
    /\ \E q \in Queries :
         LET l == [FreshCallback EXCEPT !.authorize = cb.authorize,
                                        !.query = q,
                                        !.before = db.oauth_tokens]
         IN  cb' = IF q.error THEN Answer(l, "authorization_failed")
                   ELSE IF q.code = "none" THEN Answer(l, "missing_code")
                   ELSE [l EXCEPT !.pc = "exchange"]
    /\ UNCHANGED <<db, now, issued, cyc, env, reportVars, req, sched>>

\* POST oauth2/token, grant_type=authorization_code; the response is parsed and
\* the expiry computed from the clock
CallbackExchange ==
    /\ cb.pc = "exchange"
    /\ \/ /\ cb.query.code = "good"
          /\ issued < env.tokens
          /\ \E e \in env.lifetimes, t \in Clock :
               /\ now' = t
               /\ issued' = issued + 1
               /\ cb' = [cb EXCEPT !.pc = "store",
                                   !.exchange = "ok",
                                   !.tokens = <<[access_token |-> issued + 1,
                                                 refresh_token |-> issued + 1]>>,
                                   !.expiresAt = t + e]
       \/ /\ cb' = ExchangeRejected(cb)
          /\ UNCHANGED <<now, issued>>
       \/ /\ cb' = CallbackCaught([cb EXCEPT !.exchange = "error"])
          /\ UNCHANGED <<now, issued>>
    /\ UNCHANGED <<db, cyc, env, reportVars, req, sched>>

\* INSERT INTO oauth_tokens ... ON CONFLICT(user_id) DO UPDATE, then the redirect
\* to /?auth=success; a rejected statement is caught
CallbackStore ==
    /\ cb.pc = "store"
    /\ \/ /\ db' = [db EXCEPT !.oauth_tokens =
                      Upsert(@, "user_id",
                             TokenRow("default", cb.tokens[1].access_token,
                                      cb.tokens[1].refresh_token, cb.expiresAt))]
          /\ cb' = [Answer(cb, "auth_success") EXCEPT !.wrote = TRUE]
       \/ /\ cb' = CallbackCaught(cb)
          /\ UNCHANGED db
    /\ UNCHANGED <<now, issued, cyc, env, reportVars, req, sched>>

NextCallback ==
    \/ AuthFitbit
    \/ CallbackArrive
    \/ CallbackExchange
    \/ CallbackStore

SpecCallback == Init /\ [][NextCallback]_vars

\* isFormSubmission(c): the request of the scheduled handler carries no Accept
\* header and counts as a form submission; a manual caller is a form or a JSON
\* client
Accepts(c) == IF c = "scheduled" THEN {TRUE} ELSE env.forms

\* POST /api/sync up to the expiry test: SELECT * FROM oauth_tokens WHERE user_id = ?
LoadToken(c) ==
    /\ cyc[c].pc \in {"idle", "done"}
    /\ \E fromForm \in Accepts(c) :
       LET tok == SelectFirst(db.oauth_tokens, "user_id", "default")
           fresh == [FreshCycle EXCEPT !.fromForm = fromForm]
       IN  IF tok = <<>>
           THEN /\ cyc' = [cyc EXCEPT ![c] =
                            Return(fresh, "not_authenticated")]
                /\ UNCHANGED now
           ELSE \E t \in Clock :
                /\ now' = t
                /\ LET l == [fresh EXCEPT !.tokenResult = tok,
                                               !.accessToken = tok[1].access_token,
                                               !.readToken = tok[1].access_token,
                                               !.expiry = Against(tok[1].expires_at, t)]
                   IN  cyc' = [cyc EXCEPT ![c] =
                            IF IsExpired(tok[1].expires_at, t)
                            THEN [l EXCEPT !.pc = "refresh"]
                            ELSE Acquired(l, t)]
    /\ UNCHANGED <<db, issued, env>>
    /\ UNCHANGED <<reportVars, req, handlerVars>>

\* where the upstream rotates refresh tokens, every token response makes the
\* refresh token of the response before it unusable
Consumed(refreshToken) == refreshToken < issued

\* POST oauth2/token, grant_type=refresh_token, with the refresh token that was read;
\* an upstream that rotates refresh tokens refuses one that has been used
Refresh(c) ==
    /\ cyc[c].pc = "refresh"
    /\ LET l == [cyc[c] EXCEPT !.refreshCalls = @ + 1]
       IN   \/ /\ issued < env.tokens
               /\ env.rotates => ~Consumed(l.tokenResult[1].refresh_token)
               /\ \E e \in env.lifetimes, t \in Clock :
                    /\ now' = t
                    /\ issued' = issued + 1
                    /\ cyc' = [cyc EXCEPT ![c] =
                         [l EXCEPT !.pc = "updateToken", !.refreshResp = "ok",
                                   !.newTokens = <<[access_token |-> issued + 1,
                                                    refresh_token |-> issued + 1,
                                                    expires_in |-> e]>>,
                                   !.accessToken = issued + 1,
                                   !.newExpiresAt = NewExpiry(t, e)]]
            \/ /\ cyc' = [cyc EXCEPT ![c] = RefreshRejected(l)]
               /\ UNCHANGED <<now, issued>>
            \/ /\ cyc' = [cyc EXCEPT ![c] = Catch([l EXCEPT !.refreshResp = "error"])]
               /\ UNCHANGED <<now, issued>>
    /\ UNCHANGED <<db, env>>
    /\ UNCHANGED <<reportVars, req, handlerVars>>

\* UPDATE oauth_tokens SET ... WHERE user_id = ?, then today and the headers
UpdateToken(c) ==
    /\ cyc[c].pc = "updateToken"
    /\ LET l == cyc[c]
       IN   \/ /\ db' = [db EXCEPT !.oauth_tokens =
                          UpdateTokens(@, "default", l.accessToken,
                                       l.newTokens[1].refresh_token, l.newExpiresAt)]
               /\ \E t \in Clock :
                    /\ now' = t
                    /\ cyc' = [cyc EXCEPT ![c] =
                         Acquired([l EXCEPT !.stored = @ \cup {"oauth_tokens"}], t)]
            \/ /\ cyc' = [cyc EXCEPT ![c] =
                         [Catch(l) EXCEPT !.rejected = "oauth_tokens"]]
               /\ UNCHANGED <<db, now>>
    /\ UNCHANGED <<issued, env>>
    /\ UNCHANGED <<reportVars, req, handlerVars>>

\* await fetch(...) of the next domain: a response (ok or not), or a transport error;
\* a domain the upstream has no data for is always answered with a non-success
\* status, and an upstream that cannot be reached answers nothing
Fetch(c) ==
    /\ cyc[c].pc = "fetch"
    /\ LET l == cyc[c]
           d == NextFetch(l.resp)
       IN   \/ /\ env.reachable
               /\ \E st \in (IF d \in env.served THEN {"ok", "notok"} ELSE {"notok"}) :
                    LET r == [l.resp EXCEPT ![d] = st]
                    IN  cyc' = [cyc EXCEPT ![c] =
                           [l EXCEPT !.resp = r,
                                     !.pc = IF d = Domains[Len(Domains)]
                                            THEN NextStage(r, 0) ELSE "fetch"]]
            \/ /\ d \in env.served \/ ~env.reachable
               /\ cyc' = [cyc EXCEPT ![c] = [Catch(l) EXCEPT !.resp[d] = "error"]]
    /\ UNCHANGED <<db, now, issued, env>>
    /\ UNCHANGED <<reportVars, req, handlerVars>>

\* await db.prepare(INSERT ... ON CONFLICT(date) DO UPDATE ...).bind(row).run():
\* the statement runs and the handler goes on as l, or the store rejects it
Put(c, l, tbl, row) ==
    \/ /\ db' = [db EXCEPT ![tbl] = Upsert(@, "date", row)]
       /\ cyc' = [cyc EXCEPT ![c] =
                    [l EXCEPT !.stored = @ \cup {tbl},
                              !.again =
                                  IF /\ l.pc # "done"
                                     /\ SelectFirst(db[tbl], "date", row.date) = <<row>>
                                  THEN <<[tbl |-> tbl, row |-> row]>> ELSE <<>>]]
    \/ /\ cyc' = [cyc EXCEPT ![c] = [Catch(l) EXCEPT !.rejected = tbl]]
       /\ UNCHANGED db

\* the handler goes on as l without touching the store
Skip(c, l) == cyc' = [cyc EXCEPT ![c] = l] /\ UNCHANGED db

\* if (activityResponse.ok) { ... upsert daily_activity ... }
StoreActivity(c) ==
    /\ cyc[c].pc = "activity"
    /\ LET l == [cyc[c] EXCEPT !.pc = NextStage(cyc[c].resp, 1)]
       IN  \E body \in ActivityBodies :
                Put(c, l, "daily_activity", ActivityRow(l.today, body))
    /\ UNCHANGED <<now, issued, env>>
    /\ UNCHANGED <<reportVars, req, handlerVars>>

\* if (sleepResponse.ok) { ... if (sleep) upsert sleep_data ... }
StoreSleep(c) ==
    /\ cyc[c].pc = "sleep"
    /\ LET l == [cyc[c] EXCEPT !.pc = NextStage(cyc[c].resp, 2)]
       IN  \E body \in SleepBodies :
                IF body.sleep # <<>>
                THEN Put(c, l, "sleep_data", SleepRow(l.today, body))
                ELSE Skip(c, [l EXCEPT !.nodata = @ \cup {"sleep"}])
    /\ UNCHANGED <<now, issued, env>>
    /\ UNCHANGED <<reportVars, req, handlerVars>>

\* if (heartResponse.ok) { ... if (hrValue) upsert heart_rate ... }
StoreHeart(c) ==
    /\ cyc[c].pc = "heart"
    /\ LET l == [cyc[c] EXCEPT !.pc = NextStage(cyc[c].resp, 3)]
       IN  \E body \in HeartBodies :
                IF body.value # <<>>
                THEN Put(c, l, "heart_rate", HeartRow(l.today, body))
                ELSE Skip(c, [l EXCEPT !.nodata = @ \cup {"heart"}])
    /\ UNCHANGED <<now, issued, env>>
    /\ UNCHANGED <<reportVars, req, handlerVars>>

\* if (weightResponse.ok) { weights = (await weightResponse.json()).weight || [] }
StoreWeight(c) ==
    /\ cyc[c].pc = "weight"
    /\ LET l == cyc[c]
       IN  \E body \in WeightBodies(l.today) :
                Skip(c, [l EXCEPT !.weights = body.weight,
                                  !.window = body.weight,
                                  !.nodata = IF body.weight = <<>>
                                             THEN @ \cup {"weight"} ELSE @,
                                  !.pc = IF body.weight = <<>>
                                         THEN NextStage(l.resp, 4) ELSE "weightLoop"])
    /\ UNCHANGED <<now, issued, env>>
    /\ UNCHANGED <<reportVars, req, handlerVars>>

\* for (const w of weights) { upsert weight_data under w.date }: one iteration
StoreWeightEntry(c) ==
    /\ cyc[c].pc = "weightLoop"
    /\ LET w == Head(cyc[c].weights)
           rest == Tail(cyc[c].weights)
           l == [cyc[c] EXCEPT !.weights = rest,
                               !.pc = IF rest = <<>> THEN NextStage(cyc[c].resp, 4)
                                      ELSE "weightLoop"]
       IN  Put(c, l, "weight_data", WeightRow(w))
    /\ UNCHANGED <<now, issued, env>>
    /\ UNCHANGED <<reportVars, req, handlerVars>>

\* if (vo2maxResponse.ok) { ... if (cardioScore) { vo2maxValue = ...; upsert } }
StoreVo2max(c) ==
    /\ cyc[c].pc = "vo2max"
    /\ LET l == [cyc[c] EXCEPT !.pc = NextStage(cyc[c].resp, 5)]
       IN  \E body \in Vo2maxBodies(l.today) :
                IF body.cardioScore # <<>>
                THEN Put(c, [l EXCEPT !.vo2maxValue = body.cardioScore[1].value.vo2Max],
                         "vo2max_data", Vo2maxRow(body))
                ELSE Skip(c, [l EXCEPT !.nodata = @ \cup {"vo2max"}])
    /\ UNCHANGED <<now, issued, env>>
    /\ UNCHANGED <<reportVars, req, handlerVars>>

\* if (spo2Response.ok) { ... if (spo2Data.value) { spo2Avg = ...; upsert } }
StoreSpo2(c) ==
    /\ cyc[c].pc = "spo2"
    /\ LET l == [cyc[c] EXCEPT !.pc = NextStage(cyc[c].resp, 6)]
       IN  \E body \in Spo2Bodies(l.today) :
                IF body.value # <<>>
                THEN Put(c, [l EXCEPT !.spo2Avg = body.value[1].avg],
                         "spo2_data", Spo2Row(body))
                ELSE Skip(c, [l EXCEPT !.nodata = @ \cup {"spo2"}])
    /\ UNCHANGED <<now, issued, env>>
    /\ UNCHANGED <<reportVars, req, handlerVars>>

\* updateDailySummary: SELECT * FROM daily_activity WHERE date = ?
ReadActivity(c) ==
    /\ cyc[c].pc = "readActivity"
    /\ Skip(c, [cyc[c] EXCEPT !.pc = "readSleep",
                  !.activity = SelectFirst(db.daily_activity, "date", cyc[c].today)])
    /\ UNCHANGED <<now, issued, env>>
    /\ UNCHANGED <<reportVars, req, handlerVars>>

\* updateDailySummary: SELECT * FROM sleep_data WHERE date = ?
ReadSleep(c) ==
    /\ cyc[c].pc = "readSleep"
    /\ Skip(c, [cyc[c] EXCEPT !.pc = "readHeart",
                  !.sleep = SelectFirst(db.sleep_data, "date", cyc[c].today)])
    /\ UNCHANGED <<now, issued, env>>
    /\ UNCHANGED <<reportVars, req, handlerVars>>

\* updateDailySummary: SELECT * FROM heart_rate WHERE date = ?
ReadHeart(c) ==
    /\ cyc[c].pc = "readHeart"
    /\ Skip(c, [cyc[c] EXCEPT !.pc = "readWeight",
                  !.heart = SelectFirst(db.heart_rate, "date", cyc[c].today)])
    /\ UNCHANGED <<now, issued, env>>
    /\ UNCHANGED <<reportVars, req, handlerVars>>

\* updateDailySummary: SELECT * FROM weight_data WHERE date = ? ORDER BY created_at DESC
ReadWeight(c) ==
    /\ cyc[c].pc = "readWeight"
    /\ Skip(c, [cyc[c] EXCEPT !.pc = "upsertSummary",
                  !.weight = SelectLatest(db.weight_data, "date", cyc[c].today)])
    /\ UNCHANGED <<now, issued, env>>
    /\ UNCHANGED <<reportVars, req, handlerVars>>

\* updateDailySummary: the daily_summary upsert, then the success response
UpsertSummary(c) ==
    /\ cyc[c].pc = "upsertSummary"
    /\ LET l == cyc[c]
       IN  Put(c, Return(l, "success"), "daily_summary",
               SummaryRow(l.today, l.activity, l.sleep, l.heart, l.weight,
                          l.vo2maxValue, l.spo2Avg))
    /\ UNCHANGED <<now, issued, env>>
    /\ UNCHANGED <<reportVars, req, handlerVars>>

\* one step of the sync cycle c
SyncStep(c) ==
    \/ LoadToken(c)
    \/ Refresh(c)
    \/ UpdateToken(c)
    \/ Fetch(c)
    \/ StoreActivity(c)
    \/ StoreSleep(c)
    \/ StoreHeart(c)
    \/ StoreWeight(c)
    \/ StoreWeightEntry(c)
    \/ StoreVo2max(c)
    \/ StoreSpo2(c)
    \/ ReadActivity(c)
    \/ ReadSleep(c)
    \/ ReadHeart(c)
    \/ ReadWeight(c)
    \/ UpsertSummary(c)

\* sync cycles that never overlap: one trigger at a time
Next ==
    \/ AuthCallback
    \/ SyncStep("manual")

Spec == Init /\ [][Next]_vars

\* sync cycles that never overlap, also against an upstream with four domains of
\* data
SpecMulti == InitMulti /\ [][Next]_vars

\* the same start, with manual callers that are forms and callers that are JSON
\* clients
InitCallers ==
    /\ env \in {[p EXCEPT !.forms = BOOLEAN] : p \in Profiles}
    /\ db = [t \in Tables |-> <<>>]
    /\ now = 0
    /\ issued = 0
    /\ cyc = [c \in Cycles |-> FreshCycle]
    /\ Quiet

\* sync cycles that never overlap, triggered by forms and by JSON clients
SpecCallers == InitCallers /\ [][Next]_vars

\* the world of CredentialProfile with an upstream that rotates refresh tokens
RotatingProfile == [CredentialProfile EXCEPT !.rotates = TRUE]

\* a credential stored by an earlier callback, in the world of RotatingProfile
InitRotating ==
    /\ env = RotatingProfile
    /\ \E e \in RotatingProfile.lifetimes :
          db = [t \in Tables |->
                  IF t = "oauth_tokens" THEN <<TokenRow("default", 1, 1, e)>> ELSE <<>>]
    /\ now = 0
    /\ issued = 1
    /\ cyc = [c \in Cycles |-> FreshCycle]
    /\ Quiet

\* the steps of a cycle up to its first fetch
CredentialStep(c) ==
    \/ LoadToken(c)
    \/ Refresh(c)
    \/ UpdateToken(c)
    \/ Fetch(c)

\* a manual and a scheduled cycle that may overlap while the credential expires
NextRotating == \E c \in Cycles : CredentialStep(c)

SpecRotating == InitRotating /\ [][NextRotating]_vars

\* a manual and a scheduled trigger whose cycles may overlap
NextOverlap ==
    \/ AuthCallback
    \/ \E c \in Cycles : SyncStep(c)

SpecOverlap == Init /\ [][NextOverlap]_vars

\* ------------------------------------------------------- the daily report
\* most report messages delivered before no further report is started
MaxPosts == 2

\* the key of the report's row in sync_state
stateKey == "slack:dailyReportDate"

\* jstOffset: nine hours
JstOffset == 9

\* getYesterdayJST() without the offset (a faulty variant)
YesterdayUTC(t) == DateOf(t) - 1

\* getYesterdayJST(): the date, in JST, of the day before the instant t
YesterdayJST(t) == DateOf(t + JstOffset) - 1

\* the instants at which a report may be triggered: 14:00 and 02:00 UTC, from
\* the second UTC day on
ReportInstants == {DayLen + 14 + i * (DayLen \div 2) : i \in 0..MaxTime}

\* the dates a report may be about
ReportDates == {YesterdayJST(t) : t \in ReportInstants}

\* the world of the report: no upstream; the clock runs over the report instants
ReportProfile ==
    [served |-> {}, reachable |-> FALSE, lifetimes |-> {1}, tokens |-> 0,
     instants |-> ReportInstants, forms |-> {FALSE},
     rotates |-> FALSE]

\* the dates of a set in ascending order
RECURSIVE DaysInOrder(_)
DaysInOrder(S) ==
    IF S = {} THEN <<>>
    ELSE LET m == CHOOSE x \in S : \A y \in S : x <= y
         IN  <<m>> \o DaysInOrder(S \ {m})

\* the tables as earlier sync cycles left them: activity (and, with detail, sleep
\* and heart rate) of the given days, and the summaries computed from them
SyncedTables(days, detail) ==
    LET ds == DaysInOrder(days)
        a == CHOOSE b \in ActivityBodies : b.summary # <<>>
        s == CHOOSE b \in SleepBodies : b.sleep # <<>>
        h == CHOOSE b \in HeartBodies : b.value # <<>>
        some(row) == IF detail THEN <<row>> ELSE <<>>
    IN  [t \in Tables |->
           IF t = "daily_activity" THEN [i \in 1..Len(ds) |-> ActivityRow(ds[i], a)]
           ELSE IF t = "sleep_data" /\ detail
                THEN [i \in 1..Len(ds) |-> SleepRow(ds[i], s)]
           ELSE IF t = "heart_rate" /\ detail
                THEN [i \in 1..Len(ds) |-> HeartRow(ds[i], h)]
           ELSE IF t = "daily_summary"
                THEN [i \in 1..Len(ds) |->
                        SummaryRow(ds[i], <<ActivityRow(ds[i], a)>>,
                                   some(SleepRow(ds[i], s)), some(HeartRow(ds[i], h)),
                                   <<>>, NULL, NULL)]
           ELSE <<>>]

InitReport ==
    /\ env = ReportProfile
    /\ \E days \in SUBSET ReportDates, detail \in BOOLEAN :
          db = SyncedTables(days, detail)
    /\ now = 0
    /\ issued = 0
    /\ cyc = [c \in Cycles |-> FreshCycle]
    /\ Quiet

\* what the insight endpoint may do with a request
AnalysisOutcomes ==
    {"unconfigured", "notok", "notext", "malformed", "error", "empty", "content"}

\* analyzeHealthData: null unless the endpoint answers with parseable insights,
\* which may have no content at all
AnalyzeHealthData(o) ==
    IF o = "content" THEN <<[hasContent |-> TRUE]>>
    ELSE IF o = "empty" THEN <<[hasContent |-> FALSE]>>
    ELSE <<>>

\* what the chat endpoint may do with a message
PostOutcomes == {"unconfigured", "notok", "error", "ok"}

\* postToSlack that takes every attempt for a delivery (a faulty variant)
PostToSlackOptimistic(o) == TRUE

\* postToSlack: true only when the endpoint answers ok; a missing token, an answer
\* that is not ok and a failed request are all false
PostToSlack(o) == o = "ok"

\* the call returns normally
ReportReturn(l) ==
    [l EXCEPT !.pc = "done", !.outcome = "returned", !.at = NULL,
              !.summary = <<>>, !.sleep = <<>>, !.heart = <<>>, !.insights = <<>>]

\* a failure that leaves the reporter (a faulty variant)
Rethrow(l) ==
    [l EXCEPT !.pc = "done", !.outcome = "raised", !.at = NULL,
              !.summary = <<>>, !.sleep = <<>>, !.heart = <<>>, !.insights = <<>>]

\* catch (error) { await postErrorToSlack(...) }: the failure is reported to the
\* chat and the call returns normally
Caught(l) ==
    ReportReturn([l EXCEPT !.called = @ \cup {"error"}])

\* a statement inside the try block fails: control moves to the catch block
Thrown(l) == [l EXCEPT !.pc = "catch"]

\* the dates of the report messages delivered so far
Delivered == {slack[i] : i \in 1..Len(slack)}

\* the reports once trigger r has called postDailyHealthReport at the instant t
Started(r, t) ==
    [rep EXCEPT ![r] =
        [FreshReport EXCEPT !.pc = "readState",
                            !.yesterday = YesterdayJST(t),
                            !.at = t,
                            !.prior = YesterdayJST(t) \in Delivered]]

\* postDailyHealthReport is called: yesterday is computed from the clock
ReportStart(r) ==
    /\ rep[r].pc \in {"idle", "done"}
    /\ Len(slack) < MaxPosts
    /\ \E t \in Clock :
          /\ now' = t
          /\ rep' = Started(r, t)
    /\ UNCHANGED <<db, issued, cyc, env, sync_state, slack, req, handlerVars>>

\* SELECT value FROM sync_state WHERE key = ? ; return when it is yesterday
ReadState(r) ==
    LET l == rep[r]
        lastPosted == SelectFirst(sync_state, "key", stateKey)
    IN  /\ l.pc = "readState"
        /\ \/ rep' = [rep EXCEPT ![r] = Thrown(l)]
           \/ rep' = [rep EXCEPT ![r] =
                 IF Field(lastPosted, "value") = l.yesterday
                 THEN ReportReturn(l)
                 ELSE [l EXCEPT !.pc = "readSummary"]]
        /\ UNCHANGED <<db, now, issued, cyc, env, sync_state, slack, req, handlerVars>>

\* SELECT * FROM daily_summary WHERE date = ? ; return when there is none
ReadSummary(r) ==
    LET l == rep[r]
        summary == SelectFirst(db["daily_summary"], "date", l.yesterday)
    IN  /\ l.pc = "readSummary"
        /\ \/ rep' = [rep EXCEPT ![r] = Thrown(l)]
           \/ rep' = [rep EXCEPT ![r] =
                 IF summary = <<>>
                 THEN ReportReturn(l)
                 ELSE [l EXCEPT !.pc = "readSleep", !.summary = summary]]
        /\ UNCHANGED <<db, now, issued, cyc, env, sync_state, slack, req, handlerVars>>

\* SELECT * FROM sleep_data WHERE date = ?
ReportSleep(r) ==
    LET l == rep[r]
    IN  /\ l.pc = "readSleep"
        /\ \/ rep' = [rep EXCEPT ![r] = Thrown(l)]
           \/ rep' = [rep EXCEPT ![r] =
                 [l EXCEPT !.pc = "readHeart",
                           !.sleep = SelectFirst(db["sleep_data"], "date", l.yesterday)]]
        /\ UNCHANGED <<db, now, issued, cyc, env, sync_state, slack, req, handlerVars>>

\* SELECT * FROM heart_rate WHERE date = ?
ReportHeart(r) ==
    LET l == rep[r]
    IN  /\ l.pc = "readHeart"
        /\ \/ rep' = [rep EXCEPT ![r] = Thrown(l)]
           \/ rep' = [rep EXCEPT ![r] =
                 [l EXCEPT !.pc = "analyze",
                           !.heart = SelectFirst(db["heart_rate"], "date", l.yesterday)]]
        /\ UNCHANGED <<db, now, issued, cyc, env, sync_state, slack, req, handlerVars>>

\* insights = await analyzeHealthData(env, healthData); without insights the
\* call logs and returns
Analyze(r) ==
    LET l == rep[r]
    IN  /\ l.pc = "analyze"
        /\ \E o \in AnalysisOutcomes :
              LET insights == AnalyzeHealthData(o)
                  m == [l EXCEPT !.analysis = o, !.called = @ \cup {"insight"},
                                 !.insights = insights]
              IN  rep' = [rep EXCEPT ![r] =
                     IF insights = <<>> THEN ReportReturn(m)
                     ELSE [m EXCEPT !.pc = "post"]]
        /\ UNCHANGED <<db, now, issued, cyc, env, sync_state, slack, req, handlerVars>>

\* posted = await postHealthInsightsToSlack(env, insights, yesterday): insights
\* without content are not sent; otherwise the message goes to the chat endpoint
Post(r) ==
    LET l == rep[r]
        m == [l EXCEPT !.called = @ \cup {"post"}]
        After(n, posted) ==
            IF posted THEN [n EXCEPT !.pc = "save", !.posted = <<TRUE>>]
            ELSE ReportReturn([n EXCEPT !.posted = <<FALSE>>])
    IN  /\ l.pc = "post"
        /\ IF ~l.insights[1].hasContent
           THEN /\ rep' = [rep EXCEPT ![r] = After(m, FALSE)]
                /\ UNCHANGED slack
           ELSE \E o \in PostOutcomes :
                   /\ rep' = [rep EXCEPT ![r] =
                         After([m EXCEPT !.posting = o], PostToSlack(o))]
                   /\ slack' = IF o = "ok" THEN Append(slack, l.yesterday) ELSE slack
        /\ UNCHANGED <<db, now, issued, cyc, env, sync_state, req, handlerVars>>

\* INSERT INTO sync_state (key, value, updated_at) ... ON CONFLICT(key) DO UPDATE
SaveState(r) ==
    LET l == rep[r]
    IN  /\ l.pc = "save"
        /\ \/ /\ rep' = [rep EXCEPT ![r] = Thrown(l)]
              /\ UNCHANGED sync_state
           \/ /\ sync_state' = Upsert(sync_state, "key",
                                      [key |-> stateKey, value |-> l.yesterday])
              /\ rep' = [rep EXCEPT ![r] = ReportReturn([l EXCEPT !.wrote = TRUE])]
        /\ UNCHANGED <<db, now, issued, cyc, env, slack, req, handlerVars>>

\* the catch block of postDailyHealthReport
CatchReport(r) ==
    /\ rep[r].pc = "catch"
    /\ rep' = [rep EXCEPT ![r] = Caught(rep[r])]
    /\ UNCHANGED <<db, now, issued, cyc, env, sync_state, slack, req, handlerVars>>

\* one step of a report call of trigger r that has been started
ReportRun(r) ==
    \/ ReadState(r)
    \/ ReadSummary(r)
    \/ ReportSleep(r)
    \/ ReportHeart(r)
    \/ Analyze(r)
    \/ Post(r)
    \/ SaveState(r)
    \/ CatchReport(r)

\* one step of the report call of trigger r
ReportStep(r) ==
    \/ ReportStart(r)
    \/ ReadState(r)
    \/ ReadSummary(r)
    \/ ReportSleep(r)
    \/ ReportHeart(r)
    \/ Analyze(r)
    \/ Post(r)
    \/ SaveState(r)
    \/ CatchReport(r)

\* report calls that never overlap: one trigger at a time
NextReport == ReportStep("test")

SpecReport == InitReport /\ [][NextReport]_vars

\* a scheduled and a manual trigger whose report calls may overlap
NextReportOverlap == \E r \in Triggers : ReportStep(r)

SpecReportOverlap == InitReport /\ [][NextReportOverlap]_vars

\* ------------------------------------------------------- scheduled handler
MaxRun == 1

\* the hours of the day at which a trigger of the model arrives
StartHours == {14, 21, 22, 23}

\* the instants of one invocation: at most MaxRun hours from its start
Window(h) == (DayLen + h)..(DayLen + h + MaxRun)

\* the worlds of the scheduled handler: those of the sync, with the clock running
\* over the window of one invocation
ScheduledProfiles ==
    {[p EXCEPT !.instants = Window(h)] :
        p \in {CredentialProfile} \cup {DataProfile(S) : S \in ServedSets},
        h \in StartHours}

InitScheduled ==
    /\ env \in ScheduledProfiles
    /\ db = [t \in Tables |-> <<>>]
    /\ now = 0
    /\ issued = 0
    /\ cyc = [c \in Cycles |-> FreshCycle]
    /\ Quiet

\* a report at every hour (a faulty variant)
ReportDueAlways(utcHour) == TRUE

\* if (utcHour === 22)
ReportDue(utcHour) == utcHour = 22

\* scheduled(event, env, ctx): the sync request is built and handed to app.fetch
\* (one invocation of the handler)
ScheduledTrigger ==
    /\ sched.pc = "idle"
    /\ sched' = [FreshScheduled EXCEPT !.pc = "sync"]
    /\ cyc' = [cyc EXCEPT !["scheduled"] = FreshCycle]
    /\ UNCHANGED <<db, now, issued, env, reportVars, req, cb>>

\* await app.fetch(syncRequest, env, ctx): the steps of the sync cycle
ScheduledSync ==
    /\ sched.pc = "sync"
    /\ cyc["scheduled"].pc # "done"
    /\ SyncStep("scheduled")

\* app.fetch has returned: the hour is read and, at 22, postDailyHealthReport is
\* called, which computes yesterday before its first await
ScheduledAfterSync ==
    /\ sched.pc = "sync"
    /\ cyc["scheduled"].pc = "done"
    /\ \E t \in Clock :
         /\ now' = t
         /\ IF ReportDue(UtcHour(t))
            THEN /\ rep' = Started("cron", t)
                 /\ sched' = [sched EXCEPT !.pc = "ended", !.utcHour = UtcHour(t),
                                           !.returned = t, !.reported = TRUE]
            ELSE /\ sched' = [sched EXCEPT !.pc = "ended", !.utcHour = UtcHour(t),
                                           !.returned = t]
                 /\ UNCHANGED rep
    /\ UNCHANGED <<db, issued, cyc, env, sync_state, slack, req, cb>>

\* the report the handler has started runs on under ctx.waitUntil; a report may
\* also be asked for by hand at any hour
NextScheduled ==
    \/ AuthCallback
    \/ ScheduledTrigger
    \/ ScheduledSync
    \/ ScheduledAfterSync
    \/ ReportRun("cron")
    \/ ReportStep("test")

SpecScheduled == InitScheduled /\ [][NextScheduled]_vars

\* ------------------------------------------------ the authentication chain
\* path.startsWith(q)
StartsWith(p, q) == Len(p) >= Len(q) /\ SubSeq(p, 1, Len(q)) = q

\* path.endsWith(q)
EndsWith(p, q) == Len(p) >= Len(q) /\ SubSeq(p, Len(p) - Len(q) + 1, Len(p)) = q

\* the literals of the middleware, character by character
McpPrefix == <<"/", "m", "c", "p">>
CallbackPrefix == <<"/", "a", "u", "t", "h", "/", "c", "a", "l", "l", "b", "a", "c", "k">>
DotJs == <<".", "j", "s">>
DotCss == <<".", "c", "s", "s">>
DotMap == <<".", "m", "a", "p">>

\* request paths: the dashboard, the MCP endpoint and a route below it, a path
\* that only begins like it, an API route, the OAuth callback and a path that
\* only begins like it, and one static file of each kind
Paths ==
    { <<"/">>,
      McpPrefix, McpPrefix \o <<"/", "t">>, McpPrefix \o <<"x">>,
      <<"/", "a", "p", "i">>,
      CallbackPrefix, CallbackPrefix \o <<"2">>,
      <<"/", "l">> \o DotJs, <<"/", "s">> \o DotCss, <<"/", "m">> \o DotMap }

\* the first word of an Authorization header ("" when it has one word only)
Schemes == {"", "Bearer", "bearer", "ApiKey", "Basic", "Digest"}

\* the scheme without its case (the i flag of the patterns)
Lower(s) ==
    IF s \in {"Bearer", "bearer"} THEN "bearer"
    ELSE IF s = "ApiKey" THEN "apikey"
    ELSE IF s = "Basic" THEN "basic"
    ELSE IF s = "Digest" THEN "digest"
    ELSE s

\* the rest of the header: the configured API key, another token, and the
\* encodings of three user:password pairs
Payloads == {"key", "wrong", "user:pass", "user:bad", "bad:pass"}

\* the Authorization headers of a request: none, or a scheme and a payload
Headers == {<<>>} \cup {<<[scheme |-> s, payload |-> p]>> : s \in Schemes, p \in Payloads}

\* c.env.MCP_API_KEY, as the words of the header that equals it
MCP_API_KEY == <<"key">>

\* authHeader.replace(/^(Bearer|ApiKey)\s+/i, ''): the words left of the header
StripPrefix(h) ==
    IF Lower(h.scheme) \in {"bearer", "apikey"} \/ h.scheme = ""
    THEN <<h.payload>>
    ELSE <<h.scheme, h.payload>>

\* secureCompare(token, c.env.MCP_API_KEY)
ValidApiKey(h) == StripPrefix(h) = MCP_API_KEY

\* the user and password a Basic header carries: none when the scheme is not
\* Basic or the payload is no user:password pair
Decode(h) ==
    IF Lower(h.scheme) # "basic" THEN <<>>
    ELSE IF h.payload = "user:pass" THEN <<[username |-> "user", password |-> "pass"]>>
    ELSE IF h.payload = "user:bad" THEN <<[username |-> "user", password |-> "bad"]>>
    ELSE IF h.payload = "bad:pass" THEN <<[username |-> "bad", password |-> "pass"]>>
    ELSE <<>>

\* verifyUser: userMatch && passMatch against BASIC_AUTH_USER and BASIC_AUTH_PASS
VerifyUser(u) == u.username = "user" /\ u.password = "pass"

\* basicAuth({ verifyUser }): the request carries credentials that verify
ValidBasic(header) ==
    /\ header # <<>>
    /\ Decode(header[1]) # <<>>
    /\ VerifyUser(Decode(header[1])[1])

\* the route pattern '/mcp/*': the path /mcp itself and every path below it
MatchesMcp(p) == p = McpPrefix \/ StartsWith(p, McpPrefix \o <<"/">>)

\* the paths the Basic-auth middleware lets through unchecked
SkipsBasic(p) ==
    \/ StartsWith(p, McpPrefix)
    \/ StartsWith(p, CallbackPrefix)
    \/ EndsWith(p, DotJs)
    \/ EndsWith(p, DotCss)
    \/ EndsWith(p, DotMap)

\* the middleware answers 401: the chain ends
Unauthorized(q) == [q EXCEPT !.pc = "answered", !.status = 401]

\* a request enters the middleware chain
Arrive ==
    /\ req.pc \in {"none", "answered", "route"}
    /\ \E p \in Paths, h \in Headers :
          req' = [pc |-> "apiKey", path |-> p, header |-> h, status |-> 0]
    /\ UNCHANGED <<db, now, issued, cyc, env, reportVars, handlerVars>>

\* app.use('/mcp/*', ...): the API-key middleware, run for the paths it matches
ApiKeyAuth ==
    /\ req.pc = "apiKey"
    /\ req' = IF ~MatchesMcp(req.path) THEN [req EXCEPT !.pc = "basic"]
              ELSE IF req.header = <<>> THEN Unauthorized(req)
              ELSE IF ~ValidApiKey(req.header[1]) THEN Unauthorized(req)
              ELSE [req EXCEPT !.pc = "basic"]
    /\ UNCHANGED <<db, now, issued, cyc, env, reportVars, handlerVars>>

\* app.use('/*', ...): the Basic-auth middleware; after it the request is routed
BasicAuth ==
    /\ req.pc = "basic"
    /\ req' = IF SkipsBasic(req.path) THEN [req EXCEPT !.pc = "route"]
              ELSE IF ValidBasic(req.header) THEN [req EXCEPT !.pc = "route"]
              ELSE Unauthorized(req)
    /\ UNCHANGED <<db, now, issued, cyc, env, reportVars, handlerVars>>

\* requests through the middleware chain, one at a time
NextAuth ==
    \/ Arrive
    \/ ApiKeyAuth
    \/ BasicAuth

SpecAuth == Init /\ [][NextAuth]_vars

\* ================================================================ claims
\* the tables of the six domains
DomainTables == Tables \ {"oauth_tokens", "daily_summary"}

\* the names of the six domains
DomainNames == {Domains[i] : i \in 1..Len(Domains)}

\* the credential rows of a user
RowsOfUser(user) == SelectSeq(db.oauth_tokens, LAMBDA r : r.user_id = user)

\* the rows of a table stored under a date
RowsOf(tbl, date) == SelectSeq(db[tbl], LAMBDA r : r.date = date)

\* C1: in a cycle that has acquired its token and whose store accepted every
\* write, every one of the six fetches has been issued by the time the cycle
\* ends, whichever of them failed (by status or by a transport error): a failed
\* fetch cancels no other fetch.
C1_FailedFetchCancelsNothing ==
    \A c \in Cycles :
        (cyc[c].pc = "done" /\ cyc[c].headers # NULL /\ cyc[c].rejected = "none")
            => \A d \in DomainNames : cyc[c].resp[d] # "none"

\* C2: a cycle that has acquired its token ends with the DailySummary upserted
\* and success reported, whatever fetch or store write failed on the way.
C2_FailedOnlyWhileAcquiring ==
    \A c \in Cycles :
        (cyc[c].pc = "done" /\ cyc[c].headers # NULL)
            => (cyc[c].outcome = "success" /\ "daily_summary" \in cyc[c].stored)

\* C3: a cycle in which the store rejected the upsert of one domain still goes
\* on to the DailySummary upsert.
C3_RejectedUpsertNotFatal ==
    \A c \in Cycles :
        (cyc[c].pc = "done" /\ cyc[c].rejected \in DomainTables)
            => "daily_summary" \in cyc[c].stored

\* C4: a cycle that finds no credential row ends not_authenticated; a cycle whose
\* refresh call is rejected ends token_refresh_failed; and a cycle that ends
\* either way has issued no fetch, has written no table (the credential row
\* included) and never had a bearer token.
C4_TokenFailureStopsCycle ==
    \A c \in Cycles :
        /\ (cyc[c].pc = "done" /\ cyc[c].expiry = "none")
                => cyc[c].outcome = "not_authenticated"
        /\ cyc[c].refreshResp = "notok"
                => (/\ cyc[c].pc = "done"
                    /\ cyc[c].expiry = "past"
                    /\ cyc[c].outcome = "token_refresh_failed")
        /\ cyc[c].outcome \in {"not_authenticated", "token_refresh_failed"}
                => (/\ \A d \in DomainNames : cyc[c].resp[d] = "none"
                    /\ cyc[c].stored = {}
                    /\ cyc[c].headers = NULL)

\* C4 witness: a credential row exists and the cycle has ended on a rejected refresh
C4_RefreshRejectedReached ==
    /\ db.oauth_tokens # <<>>
    /\ cyc["manual"].refreshResp = "notok"
    /\ cyc["manual"].outcome = "token_refresh_failed"

\* C5: a cycle that fetches with a credential read at or after its expiry
\* (equality included) has called the refresh endpoint once and fetches with a
\* token other than the one it read; one that read the credential before its
\* expiry has made no refresh call.
C5_RefreshAtOrAfterExpiry ==
    \A c \in Cycles :
        cyc[c].headers # NULL
            => /\ cyc[c].expiry \in {"past", "now"}
                    => (cyc[c].refreshCalls = 1 /\ cyc[c].headers # cyc[c].readToken)
               /\ cyc[c].expiry = "future" => cyc[c].refreshCalls = 0

\* C6: a cycle that read a credential whose expiry is in the past has called the
\* refresh endpoint exactly once when it has a bearer token; the expiry computed
\* from the refresh response is the clock at the exchange plus expires_in; and
\* the expiry the update stores is that value and is strictly later than the
\* expiry that was read.
C6_RefreshOnceStrictlyLater ==
    [][\A c \in Cycles :
        /\ (cyc'[c].headers # NULL /\ cyc'[c].expiry = "past")
                => cyc'[c].refreshCalls = 1
        /\ (cyc[c].pc = "refresh" /\ cyc'[c].pc = "updateToken")
                => cyc'[c].newExpiresAt = now' + cyc'[c].newTokens[1].expires_in
        /\ (cyc[c].pc = "updateToken" /\ "oauth_tokens" \in cyc'[c].stored)
                => \A i \in 1..Len(db'.oauth_tokens) :
                      /\ db'.oauth_tokens[i].expires_at = cyc[c].newExpiresAt
                      /\ db'.oauth_tokens[i].expires_at
                            > cyc[c].tokenResult[1].expires_at]_vars

\* C6 witness: a cycle that found the credential expired has refreshed, stored
\* the new expiry and holds a bearer token
C6_RefreshedReached ==
    /\ cyc["manual"].expiry = "past"
    /\ cyc["manual"].refreshCalls = 1
    /\ "oauth_tokens" \in cyc["manual"].stored
    /\ cyc["manual"].headers # NULL

\* C7: the store never holds more than one credential row for the user, every
\* credential row pairs an access token with the refresh token of the same token
\* response, and the update after a refresh leaves the row holding the access
\* token, the refresh token and the expiry of that refresh response.
C7_CredentialRowWhole ==
    /\ [](/\ Len(RowsOfUser("default")) <= 1
          /\ \A i \in 1..Len(db.oauth_tokens) :
                db.oauth_tokens[i].access_token = db.oauth_tokens[i].refresh_token)
    /\ [][\A c \in Cycles :
            (cyc[c].pc = "updateToken" /\ "oauth_tokens" \in cyc'[c].stored)
                => db'.oauth_tokens =
                     <<[user_id |-> "default",
                        access_token |-> cyc[c].newTokens[1].access_token,
                        refresh_token |-> cyc[c].newTokens[1].refresh_token,
                        expires_at |-> cyc[c].newExpiresAt]>>]_vars

\* C7 witness: two overlapping cycles have both refreshed and both stored their tokens
C7_BothRefreshedReached ==
    \A c \in Cycles :
        /\ cyc[c].refreshResp = "ok"
        /\ "oauth_tokens" \in cyc[c].stored
        /\ cyc[c].pc = "fetch"

\* C8: when a domain row is written that the store already holds, field for
\* field, under the same date, the table afterwards holds exactly one row for
\* that date and it is that row.
C8_SameWriteTwiceOneRow ==
    \A c \in Cycles :
        cyc[c].again # <<>>
            => RowsOf(cyc[c].again[1].tbl, cyc[c].again[1].row.date)
                    = <<cyc[c].again[1].row>>

\* C8 witness: a cycle has just written an activity row the store already held
C8_WrittenAgainReached ==
    /\ cyc["manual"].again # <<>>
    /\ cyc["manual"].again[1].tbl = "daily_activity"

\* C9: every per-date table holds at most one row per date, and every domain row
\* is, column for column, the projection of the one payload kept in its raw_data.
C9_OneRowPerDateOneWriter ==
    /\ \A t \in Tables \ {"oauth_tokens"} :
         \A i, j \in 1..Len(db[t]) : db[t][i].date = db[t][j].date => i = j
    /\ \A i \in 1..Len(db.daily_activity) :
         db.daily_activity[i]
            = ActivityRow(db.daily_activity[i].date, db.daily_activity[i].raw_data)
    /\ \A i \in 1..Len(db.sleep_data) :
         db.sleep_data[i] = SleepRow(db.sleep_data[i].date, db.sleep_data[i].raw_data)
    /\ \A i \in 1..Len(db.heart_rate) :
         db.heart_rate[i] = HeartRow(db.heart_rate[i].date, db.heart_rate[i].raw_data)
    /\ \A i \in 1..Len(db.weight_data) :
         db.weight_data[i] = WeightRow(db.weight_data[i].raw_data)
    /\ \A i \in 1..Len(db.vo2max_data) :
         db.vo2max_data[i] = Vo2maxRow(db.vo2max_data[i].raw_data)
    /\ \A i \in 1..Len(db.spo2_data) :
         db.spo2_data[i] = Spo2Row(db.spo2_data[i].raw_data)

\* C9 witness: two overlapping cycles have both written the activity row of the
\* same date, and one row is stored for it
C9_BothWroteSameDateReached ==
    /\ \A c \in Cycles :
         /\ cyc[c].pc = "readActivity"
         /\ "daily_activity" \in cyc[c].stored
    /\ cyc["manual"].today = cyc["scheduled"].today
    /\ Len(RowsOf("daily_activity", cyc["manual"].today)) = 1

\* C10: when no cycle is running, every DailySummary row has active_minutes equal
\* to fairly_active_minutes + very_active_minutes of the activity row stored for
\* its date, and 0 when no activity row is stored for it.
C10_ActiveMinutesMatchActivity ==
    (\A c \in Cycles : cyc[c].pc \in {"idle", "done"})
        => \A i \in 1..Len(db.daily_summary) :
              LET a == SelectFirst(db.daily_activity, "date", db.daily_summary[i].date)
              IN  db.daily_summary[i].active_minutes
                    = IF a = <<>> THEN 0
                      ELSE a[1].fairly_active_minutes + a[1].very_active_minutes

\* the table a domain is stored in
TableOf(d) ==
    CASE d = "activity" -> "daily_activity"
      [] d = "sleep" -> "sleep_data"
      [] d = "heart" -> "heart_rate"
      [] d = "weight" -> "weight_data"
      [] d = "vo2max" -> "vo2max_data"
      [] d = "spo2" -> "spo2_data"

\* a fetch of the cycle was answered with a non-success status or raised
FetchFailed(l, d) == l.resp[d] \in {"notok", "error"}

\* C11: a cycle fails after its token is acquired only through a fetch that
\* raised or a write the store rejected, never through a source row that is
\* absent; and the summary row of a cycle that ended with success has steps,
\* calories, distance and active_minutes 0 when no activity row is stored for
\* the date, sleep_duration_minutes 0 and sleep_efficiency null when no sleep
\* row is, resting_heart_rate null when no heart-rate row is and weight null
\* when no weight row is.
C11_AbsentSourcesDefault ==
    \A c \in Cycles :
        /\ (cyc[c].outcome = "sync_failed" /\ cyc[c].headers # NULL)
                => (\/ cyc[c].rejected # "none"
                    \/ \E d \in DomainNames : cyc[c].resp[d] = "error")
        /\ (cyc[c].pc = "done" /\ cyc[c].outcome = "success")
                => /\ Len(RowsOf("daily_summary", cyc[c].today)) = 1
                   /\ LET s == RowsOf("daily_summary", cyc[c].today)[1]
                      IN  /\ RowsOf("daily_activity", cyc[c].today) = <<>>
                                => (/\ s.steps = 0 /\ s.calories = 0
                                    /\ s.distance = 0 /\ s.active_minutes = 0)
                          /\ RowsOf("sleep_data", cyc[c].today) = <<>>
                                => (/\ s.sleep_duration_minutes = 0
                                    /\ s.sleep_efficiency = NULL)
                          /\ RowsOf("heart_rate", cyc[c].today) = <<>>
                                => s.resting_heart_rate = NULL
                          /\ RowsOf("weight_data", cyc[c].today) = <<>>
                                => s.weight = NULL

\* C11 witness: a cycle has ended with success with only an activity row stored
\* for its date, and the summary carries the activity's steps and the defaults
C11_OnlyActivityReached ==
    /\ cyc["manual"].pc = "done"
    /\ cyc["manual"].outcome = "success"
    /\ RowsOf("daily_activity", cyc["manual"].today) # <<>>
    /\ RowsOf("sleep_data", cyc["manual"].today) = <<>>
    /\ RowsOf("heart_rate", cyc["manual"].today) = <<>>
    /\ RowsOf("weight_data", cyc["manual"].today) = <<>>
    /\ \E i \in 1..Len(db.daily_summary) :
         /\ db.daily_summary[i].steps = 8000
         /\ db.daily_summary[i].active_minutes = 35
         /\ db.daily_summary[i].resting_heart_rate = NULL
         /\ db.daily_summary[i].sleep_duration_minutes = 0
         /\ db.daily_summary[i].sleep_efficiency = NULL
         /\ db.daily_summary[i].weight = NULL

\* C12: a finished cycle whose heart-rate fetch failed while no other fetch
\* failed and the store accepted every write has written the activity row, has
\* written no heart-rate row and has upserted the DailySummary of its date with
\* a null resting heart rate.
C12_HeartFailureOnly ==
    \A c \in Cycles :
        (/\ cyc[c].pc = "done"
         /\ cyc[c].headers # NULL
         /\ cyc[c].rejected = "none"
         /\ FetchFailed(cyc[c], "heart")
         /\ \A d \in {"activity", "sleep", "weight"} : ~FetchFailed(cyc[c], d))
            => /\ {"daily_activity", "daily_summary"} \subseteq cyc[c].stored
               /\ "heart_rate" \notin cyc[c].stored
               /\ \A i \in 1..Len(db.daily_summary) :
                    db.daily_summary[i].date = cyc[c].today
                        => db.daily_summary[i].resting_heart_rate = NULL

\* the cycle has no usable data for a domain: its fetch was answered with a
\* non-success status, or with ok and nothing to store
NoUsableData(l, d) == l.resp[d] = "notok" \/ d \in l.nodata

\* C13: a cycle writes no row of a domain it has no usable data for: the table
\* of the domain is not among the tables the cycle has written and no step of
\* the cycle changes it; and a finished cycle none of whose fetches raised and
\* none of whose writes was rejected has ended with success.
C13_NoDataNoWrite ==
    /\ [](\A c \in Cycles :
            /\ \A d \in DomainNames :
                 NoUsableData(cyc[c], d) => TableOf(d) \notin cyc[c].stored
            /\ (/\ cyc[c].pc = "done" /\ cyc[c].headers # NULL
                /\ cyc[c].rejected = "none"
                /\ \A d \in DomainNames : cyc[c].resp[d] \in {"ok", "notok"})
                    => cyc[c].outcome = "success")
    /\ [][\A c \in Cycles : \A d \in DomainNames :
            (cyc[c].pc \notin {"idle", "done"} /\ NoUsableData(cyc'[c], d))
                => db'[TableOf(d)] = db[TableOf(d)]]_vars

\* C13 witness: a cycle has ended with success without a sleep session while a
\* sleep row of an earlier cycle is stored for its date
C13_SkippedOverStoredReached ==
    /\ cyc["manual"].pc = "done"
    /\ cyc["manual"].outcome = "success"
    /\ "sleep" \in cyc["manual"].nodata
    /\ RowsOf("sleep_data", cyc["manual"].today) # <<>>

\* the number of entries of the weight window the cycle has upserted
Upserted(l) == Len(l.window) - Len(l.weights)

\* the last of the first k entries of a window that carries the date of the j-th
LastFor(window, k, j) ==
    window[CHOOSE i \in 1..k :
                /\ window[i].date = window[j].date
                /\ \A m \in (i + 1)..k : window[m].date # window[j].date]

\* C14: while a cycle whose weight writes the store accepts works through its
\* weight window, each entry upserted so far is stored under its own date, and
\* the one row stored for a date holds the weight, bmi and fat of the last
\* entry upserted so far that carries the date.
C14_LaterEntryWins ==
    \A c \in Cycles :
        (cyc[c].window # <<>> /\ cyc[c].rejected # "weight_data")
            => \A j \in 1..Upserted(cyc[c]) :
                  LET w == LastFor(cyc[c].window, Upserted(cyc[c]), j)
                  IN  RowsOf("weight_data", cyc[c].window[j].date)
                        = <<[date |-> w.date, weight |-> w.weight, bmi |-> w.bmi,
                             fat_percent |-> w.fat, raw_data |-> w]>>

\* C14 witness: a cycle has upserted a whole window in which one date occurs twice
C14_SameDateTwiceReached ==
    /\ Len(cyc["manual"].window) = 2
    /\ cyc["manual"].window[1].date = cyc["manual"].window[2].date
    /\ cyc["manual"].window[1].weight # cyc["manual"].window[2].weight
    /\ Upserted(cyc["manual"]) = 2
    /\ cyc["manual"].rejected = "none"
    /\ cyc["manual"].outcome = "success"

\* C15: at the end of a cycle that ended with success, the DailySummary of every
\* date the cycle wrote a row for reflects that row: the summary of the sync
\* date carries the steps of the activity row written, and for every entry of
\* the weight window, whatever its date, a summary row of that date exists and
\* carries the weight stored for the date.
C15_SummaryOfEveryWrittenDate ==
    \A c \in Cycles :
        (cyc[c].pc = "done" /\ cyc[c].outcome = "success")
            => /\ "daily_activity" \in cyc[c].stored
                    => \A i \in 1..Len(db.daily_summary) :
                          db.daily_summary[i].date = cyc[c].today
                            => db.daily_summary[i].steps
                                 = RowsOf("daily_activity", cyc[c].today)[1].steps
               /\ \A j \in 1..Len(cyc[c].window) :
                    /\ RowsOf("daily_summary", cyc[c].window[j].date) # <<>>
                    /\ RowsOf("daily_summary", cyc[c].window[j].date)[1].weight
                         = RowsOf("weight_data", cyc[c].window[j].date)[1].weight

\* the number of report messages delivered for the date d
PostsFor(d) == Cardinality({i \in 1..Len(slack) : slack[i] = d})

\* C16: when report calls follow one another and a report of the date has been
\* delivered by an earlier call, the next call for that date is a no-op: it
\* calls neither the insight collaborator nor the posting collaborator.
C16_SecondCallNoOp ==
    rep["test"].prior => rep["test"].called \cap {"insight", "post"} = {}

\* C17: whatever the order or overlap of the report calls of the two triggers
\* and whatever fails, at most one report message is delivered for a date.
C17_AtMostOnePostPerDate ==
    \A d \in ReportDates : PostsFor(d) <= 1

\* the ways analyzeHealthData has no insights to give
Unavailable == {"unconfigured", "notok", "notext", "malformed", "error"}

\* C18: the date stored in sync_state is always the date of a report message
\* that was delivered; a call whose insight generation was unavailable attempts
\* no post and writes no state; a call whose post failed writes no state.
C18_StateOnlyAfterPost ==
    /\ \A i \in 1..Len(sync_state) : sync_state[i].value \in Delivered
    /\ \A r \in Triggers :
          /\ rep[r].analysis \in Unavailable
                => /\ "post" \notin rep[r].called
                   /\ rep[r].posting = "none"
                   /\ ~rep[r].wrote
          /\ rep[r].posted = <<FALSE>>
                => /\ ~rep[r].wrote
                   /\ rep[r].pc # "save"

\* C18 witness: a report date is stored, and a later call whose post was refused
\* has returned with the stored date as it was
C18_FailedPostLeftStateReached ==
    /\ rep["test"].pc = "done"
    /\ rep["test"].posting = "notok"
    /\ rep["test"].posted = <<FALSE>>
    /\ Len(sync_state) = 1
    /\ sync_state[1].value # rep["test"].yesterday

\* C19: a report call never ends by raising, whatever the store, the insight
\* endpoint or the chat endpoint did, and a post that failed is the boolean false.
C19_ReporterNeverRaises ==
    \A r \in Triggers :
        /\ rep[r].outcome # "raised"
        /\ rep[r].pc = "done" => rep[r].outcome = "returned"
        /\ rep[r].posting \in {"unconfigured", "notok", "error"}
              => rep[r].posted = <<FALSE>>

\* C19 witness: a call in which a statement failed has returned normally, while
\* the other call got false from a post whose request failed
C19_FailureSwallowedReached ==
    /\ rep["test"].pc = "done"
    /\ "error" \in rep["test"].called
    /\ rep["test"].outcome = "returned"
    /\ rep["cron"].pc = "done"
    /\ rep["cron"].posting = "error"
    /\ rep["cron"].posted = <<FALSE>>

\* the static assets: paths that end in .js, .css or .map
StaticAsset(p) == EndsWith(p, DotJs) \/ EndsWith(p, DotCss) \/ EndsWith(p, DotMap)

\* C20: a request the middleware chain passes on to the routes has passed the
\* authentication of its path class: for the MCP endpoint and the paths under
\* /mcp/ a header that is the API key after the optional prefix is stripped,
\* and for every other path except /auth/callback and the static assets valid
\* Basic credentials; every other request is answered 401.
C20_AuthenticatedBeforeHandler ==
    req.pc = "route"
        => IF req.path = McpPrefix \/ StartsWith(req.path, McpPrefix \o <<"/">>)
           THEN req.header # <<>> /\ ValidApiKey(req.header[1])
           ELSE \/ req.path = CallbackPrefix
                \/ StaticAsset(req.path)
                \/ ValidBasic(req.header)

\* the positions of a cycle inside updateDailySummary
AggregatorStages == {"readActivity", "readSleep", "readHeart", "readWeight", "upsertSummary"}

\* the positions of a cycle among the domain writes
WriterStages == DomainNames \cup {"weightLoop"}

\* C23: the stages of a cycle are ordered. A cycle that has issued a fetch has
\* acquired its token (after a refresh, stored, when the credential had expired);
\* a cycle that is writing, or has written, a domain row has an answer to every
\* fetch; a cycle that is inside the aggregation, or has written the summary,
\* has finished every domain write its responses call for, and no step of the
\* aggregation changes a domain table.
C23_StagesInOrder ==
    /\ [](\A c \in Cycles :
            LET l == cyc[c]
            IN  /\ (\E d \in DomainNames : l.resp[d] # "none")
                      => /\ l.headers # NULL
                         /\ l.today # NULL
                         /\ l.pc \notin {"refresh", "updateToken"}
                         /\ l.expiry = "past"
                              => l.refreshResp = "ok" /\ "oauth_tokens" \in l.stored
                /\ (l.pc \in WriterStages \/ l.stored \cap DomainTables # {})
                      => \A d \in DomainNames : l.resp[d] \in {"ok", "notok"}
                /\ (l.pc \in AggregatorStages \/ "daily_summary" \in l.stored)
                      => /\ l.weights = <<>>
                         /\ \A d \in DomainNames :
                               l.resp[d] = "ok"
                                  => TableOf(d) \in l.stored \/ d \in l.nodata)
    /\ [][\A c \in Cycles :
            cyc[c].pc \in AggregatorStages
               => \A t \in DomainTables : db'[t] = db[t]]_vars

\* C23 witness: a cycle that wrote four domains and then the summary has ended
C23_FourDomainsThenSummaryReached ==
    /\ cyc["manual"].pc = "done"
    /\ cyc["manual"].outcome = "success"
    /\ {"daily_activity", "sleep_data", "heart_rate", "weight_data", "daily_summary"}
          \subseteq cyc["manual"].stored

\* C24: when a cycle ends with success, the activity, sleep, heart-rate and
\* weight fields of the summary of its date are those of the rows stored for
\* the date, whether this cycle wrote them or an earlier one did: a domain
\* whose fetch was refused in this cycle contributes the row stored before.
C24_SummaryFromStoredRows ==
    \A c \in Cycles :
        (cyc[c].pc = "done" /\ cyc[c].outcome = "success")
            => LET d == cyc[c].today
                   s == RowsOf("daily_summary", d)
                   a == SelectFirst(db.daily_activity, "date", d)
                   sl == SelectFirst(db.sleep_data, "date", d)
                   h == SelectFirst(db.heart_rate, "date", d)
                   w == SelectLatest(db.weight_data, "date", d)
               IN  /\ Len(s) = 1
                   /\ s[1].steps = OrZero(Field(a, "steps"))
                   /\ s[1].calories = OrZero(Field(a, "calories_out"))
                   /\ s[1].distance = OrZero(Field(a, "distance"))
                   /\ s[1].active_minutes
                        = OrZero(Field(a, "fairly_active_minutes"))
                            + OrZero(Field(a, "very_active_minutes"))
                   /\ s[1].sleep_duration_minutes = OrZero(Field(sl, "duration_minutes"))
                   /\ s[1].sleep_efficiency = OrNull(Field(sl, "efficiency"))
                   /\ s[1].resting_heart_rate = OrNull(Field(h, "resting_heart_rate"))
                   /\ s[1].weight = OrNull(Field(w, "weight"))

\* C24 witness: a cycle whose activity fetch was refused has ended with success
\* and the summary of its date carries the steps stored by an earlier cycle
C24_EarlierRowContributesReached ==
    /\ cyc["manual"].pc = "done"
    /\ cyc["manual"].outcome = "success"
    /\ cyc["manual"].resp["activity"] = "notok"
    /\ RowsOf("daily_activity", cyc["manual"].today) # <<>>
    /\ RowsOf("daily_summary", cyc["manual"].today)[1].steps = 8000

\* a step of the cycle raised: a request that failed or a statement the store
\* rejected
Raised(l) ==
    \/ l.refreshResp = "error"
    \/ l.rejected # "none"
    \/ \E d \in DomainNames : l.resp[d] = "error"

\* the outcome a finished cycle must have had, from what happened in it
Expected(l) ==
    IF l.readToken = NULL THEN "not_authenticated"
    ELSE IF l.refreshResp = "notok" THEN "token_refresh_failed"
    ELSE IF Raised(l) THEN "sync_failed"
    ELSE "success"

\* C25 as stated: a finished sync request has the one outcome its cycle calls
\* for, answered 401 when no credential exists, 401 when the refresh is
\* refused, 500 when a step raised and success (200) otherwise, and success
\* only when the cycle has written the summary.
C25_OneOutcomeWithStatus ==
    \A c \in Cycles :
        cyc[c].pc = "done"
            => /\ cyc[c].outcome = Expected(cyc[c])
               /\ cyc[c].status
                    = CASE cyc[c].outcome = "not_authenticated" -> 401
                        [] cyc[c].outcome = "token_refresh_failed" -> 401
                        [] cyc[c].outcome = "sync_failed" -> 500
                        [] cyc[c].outcome = "success" -> 200
               /\ cyc[c].outcome = "success" => "daily_summary" \in cyc[c].stored

\* C25 amended: a finished sync request has the one outcome its cycle calls
\* for; a JSON caller is answered 401, 401, 500 and 200 for the four outcomes
\* and a form submission is answered with a redirect (302) that names the
\* outcome; success is the outcome only when the cycle has written the summary.
C25_OneOutcomePerCaller ==
    \A c \in Cycles :
        cyc[c].pc = "done"
            => /\ cyc[c].outcome = Expected(cyc[c])
               /\ cyc[c].status
                    = IF cyc[c].fromForm THEN 302
                      ELSE CASE cyc[c].outcome = "not_authenticated" -> 401
                             [] cyc[c].outcome = "token_refresh_failed" -> 401
                             [] cyc[c].outcome = "sync_failed" -> 500
                             [] cyc[c].outcome = "success" -> 200
               /\ cyc[c].outcome = "success" => "daily_summary" \in cyc[c].stored

\* C25 witness: a form submission whose cycle wrote the activity row and then
\* met a rejected summary write has been redirected with sync_failed
C25_FormCallerFailedReached ==
    /\ cyc["manual"].pc = "done"
    /\ cyc["manual"].fromForm
    /\ cyc["manual"].outcome = "sync_failed"
    /\ cyc["manual"].rejected = "daily_summary"
    /\ "daily_activity" \in cyc["manual"].stored
    /\ cyc["manual"].status = 302

\* C27: when a cycle ends with success, the vo2max and spo2_avg of the summary
\* of its date are the score of the vo2max row and the average of the SpO2 row
\* stored for the date, and null when no such row is stored.
C27_SummaryCarriesStoredScores ==
    \A c \in Cycles :
        (cyc[c].pc = "done" /\ cyc[c].outcome = "success")
            => LET d == cyc[c].today
                   s == RowsOf("daily_summary", d)
                   v == SelectFirst(db.vo2max_data, "date", d)
                   o == SelectFirst(db.spo2_data, "date", d)
               IN  /\ Len(s) = 1
                   /\ s[1].vo2max = Field(v, "vo2max")
                   /\ s[1].spo2_avg = Field(o, "avg")

\* C28: once two cycles of the same date that may have overlapped have both
\* ended with success, the summary of the date is the aggregation of the
\* activity row then stored: its steps are those of the row and its
\* active_minutes the sum of the row's fairly and very active minutes.
C28_OverlapSummaryMatchesRows ==
    ( /\ \A c \in Cycles : cyc[c].pc = "done" /\ cyc[c].outcome = "success"
      /\ cyc["manual"].today = cyc["scheduled"].today )
        => LET d == cyc["manual"].today
               s == RowsOf("daily_summary", d)
               a == SelectFirst(db.daily_activity, "date", d)
           IN  /\ Len(s) = 1
               /\ s[1].steps = OrZero(Field(a, "steps"))
               /\ s[1].active_minutes
                    = OrZero(Field(a, "fairly_active_minutes"))
                        + OrZero(Field(a, "very_active_minutes"))

ErrorPages == {"authorization_failed", "missing_code", "error"}

\* C21: a callback that arrived with an error parameter, or without a code, or
\* whose code exchange was refused, has answered with an error page and has
\* left the credential table as it found it; and the credential table changes
\* only in the store step of a callback whose exchange succeeded.
C21_FailedCallbackKeepsCredential ==
    /\ []((/\ cb.pc = "done"
           /\ \/ cb.query.error
              \/ cb.query.code = "none"
              \/ cb.exchange \in {"notok", "error"})
              => /\ cb.page \in ErrorPages
                 /\ ~cb.wrote
                 /\ db.oauth_tokens = cb.before)
    /\ [][db.oauth_tokens' # db.oauth_tokens
            => (cb.pc = "store" /\ cb.exchange = "ok")]_vars

\* C21 witness: a stored credential has survived a callback whose code exchange
\* was refused
C21_RefusedExchangeReached ==
    /\ cb.pc = "done"
    /\ cb.exchange = "notok"
    /\ cb.page = "error"
    /\ Len(cb.before) = 1
    /\ db.oauth_tokens = cb.before

\* C22: every authorize redirect carries a state parameter, and a callback that
\* arrived with an invalid state has been rejected and has stored no credential.
C22_StateBindsFlow ==
    /\ cb.authorize # {} => "state" \in cb.authorize
    /\ (cb.pc = "done" /\ cb.query.state = "invalid")
          => (cb.page \in ErrorPages /\ ~cb.wrote)

\* C26: the scheduled handler starts the report only in the step in which its
\* own sync cycle has returned, and only when the hour read in that step is 22;
\* a trigger whose sync returned at any other hour has started no report.
C26_ReportAfterSyncAtHour22 ==
    /\ [][(rep["cron"].pc # "readState" /\ rep'["cron"].pc = "readState")
            => /\ sched.pc = "sync"
               /\ cyc["scheduled"].pc = "done"
               /\ cyc'["scheduled"] = cyc["scheduled"]
               /\ UtcHour(now') = 22
               /\ rep'["cron"].at = now']_vars
    /\ [](sched.returned # NULL => (sched.reported <=> sched.utcHour = 22))

\* C26 witness: a trigger's sync has ended with success and, at hour 22, the
\* report has been started
C26_ReportStartedAtHour22Reached ==
    /\ sched.reported
    /\ sched.utcHour = 22
    /\ cyc["scheduled"].outcome = "success"
    /\ rep["cron"].pc # "idle"

\* C30: the report a scheduled trigger has started is about the UTC date under
\* which that trigger's sync cycle wrote its rows; and the date of every report
\* in progress is the UTC date of the instant it was computed at when the hour is
\* 15 or later, and the date before it otherwise.
C30_ReportDateIsSyncDate ==
    /\ (sched.reported /\ cyc["scheduled"].today # NULL)
          => rep["cron"].yesterday = cyc["scheduled"].today
    /\ \A r \in Triggers :
          rep[r].at # NULL
            => rep[r].yesterday = IF UtcHour(rep[r].at) >= 15
                                  THEN DateOf(rep[r].at)
                                  ELSE DateOf(rep[r].at) - 1

\* C30 witness: a scheduled report follows a sync that ended with success, and
\* has read the summary row that sync wrote
C30_ScheduledReportOnSyncDateReached ==
    /\ sched.reported
    /\ cyc["scheduled"].outcome = "success"
    /\ rep["cron"].yesterday = cyc["scheduled"].today
    /\ Len(rep["cron"].summary) = 1
    /\ rep["cron"].summary[1].date = cyc["scheduled"].today
====
